---- MODULE Spec2Model ----
(***************************************************************************)
(* Model of the Korea ISBN metadata plugin (src/__init__.py): the text     *)
(* normalisation helpers, the URL builders, and the two host entry points  *)
(* identify and download_cover, each as a sequence of steps separated by   *)
(* the blocking calls to the host's transport.                             *)
(*                                                                         *)
(* Encoding of Python values                                               *)
(*   str            a sequence of tokens; a token is one character, or,    *)
(*                  for the fixed parts of a URL, one literal chunk        *)
(*   Optional[T]    a sequence of length <= 1: None is << >>, a value v    *)
(*                  is <<v>>                                               *)
(*   dict           a record of Optional fields; a key that is absent      *)
(*                  reads as None, exactly as dict.get(key) does           *)
(*   tuple          a sequence                                             *)
(*                                                                         *)
(* The module is ASCII, so each Hangul syllable of the source is one token *)
(* named by its romanisation:                                              *)
(*   om gim      U+C62E U+AE40          "translated by"   (dropped role)   *)
(*   yeokk eun i U+C5EE U+C740 U+C774   "editor"          (dropped role)   *)
(*   yeok ja     U+C5ED U+C790          "translator"      (dropped role)   *)
(*   ji eun i    U+C9C0 U+C740 U+C774   "author"          (stripped)       *)
(*   jeo ja      U+C800 U+C790          "author"          (stripped)       *)
(*   jak ga      U+C791 U+AC00          "writer"          (stripped)       *)
(*   ji eum      U+C9C0 U+C74C          "written by"      (stripped)       *)
(***************************************************************************)
EXTENDS Naturals, Sequences, FiniteSets

VARIABLES
    prefs,          \* self.prefs: the configured options ('api_key')
    pc,             \* position of the call in progress
    op,             \* the entry point in progress, or the last one finished
    identifiers,    \* the call's identifiers argument
    timeout,        \* the call's timeout argument
    url,            \* identify/download_cover local: the URL about to be fetched
    book_json,      \* local book_json: the first docs record
    book_info,      \* local book_info: the detail mapping
    mi,             \* local mi: the Metadata record under construction
    result_queue,   \* the call's result sink
    log,            \* the call's log sink: the levels logged, in order
    events,         \* the calls made to host collaborators, with their answers
    attempted,      \* the Stage-2 sub-steps entered, in order
    ret,            \* the value returned by the finished call
    escaped         \* whether an exception left the finished call

vars == <<prefs, pc, op, identifiers, timeout, url, book_json,
          book_info, mi, result_queue, log, events, attempted, ret, escaped>>

-----------------------------------------------------------------------------
(* Bounds of the model *)

MaxIsbnLen == 3
MaxAuthorLen == 4

-----------------------------------------------------------------------------
(* Python values *)

None == << >>
Some(v) == <<v>>
IsNone(o) == o = << >>
Val(o) == o[1]

\* A literal of the source that the model never looks inside: one chunk.
S(chunk) == <<chunk>>

\* Python truthiness of an Optional[str]: None and "" are falsy.
Truthy(o) == ~IsNone(o) /\ Val(o) # << >>

\* a or b, for Optional[str] operands
Or(a, b) == IF Truthy(a) THEN a ELSE b

Strings(alphabet, n) == UNION {[1..k -> alphabet] : k \in 0..n}

RECURSIVE Join(_, _)
Join(sep, parts) ==
    IF parts = << >> THEN << >>
    ELSE IF Len(parts) = 1 THEN parts[1]
    ELSE parts[1] \o sep \o Join(sep, Tail(parts))

\* re.split(pattern='[...]', string=s) for a character class: s is cut at
\* every character of the class; empty pieces are kept, so the result has
\* one piece more than s has characters of the class.
RECURSIVE ReSplit(_, _)
ReSplit(s, class) ==
    IF \A i \in 1..Len(s) : s[i] \notin class THEN <<s>>
    ELSE LET i == CHOOSE k \in 1..Len(s) :
                     s[k] \in class /\ \A j \in 1..(k - 1) : s[j] \notin class
         IN  <<SubSeq(s, 1, i - 1)>> \o ReSplit(SubSeq(s, i + 1, Len(s)), class)

-----------------------------------------------------------------------------
(* Text normalizer *)

Whitespace == {" "}

\* keyword in item
Contains(item, keyword) ==
    \E i \in 1..(Len(item) - Len(keyword) + 1) :
        SubSeq(item, i, i + Len(keyword) - 1) = keyword

\* item.replace(keyword, ""): one pass from the left over the occurrences
\* that do not overlap; what the deletion joins is not looked at again.
RECURSIVE Replace(_, _)
Replace(item, keyword) ==
    IF Len(item) < Len(keyword) THEN item
    ELSE IF SubSeq(item, 1, Len(keyword)) = keyword
         THEN Replace(SubSeq(item, Len(keyword) + 1, Len(item)), keyword)
         ELSE <<Head(item)>> \o Replace(Tail(item), keyword)

\* item.strip()
Strip(item) ==
    LET solid == {i \in 1..Len(item) : item[i] \notin Whitespace}
    IN  IF solid = {} THEN << >>
        ELSE SubSeq(item,
                    CHOOSE i \in solid : \A j \in solid : i <= j,
                    CHOOSE i \in solid : \A j \in solid : j <= i)

remove_empty_strings(items) ==
    SelectSeq(items, LAMBDA item : item # << >>)

filter_not_include_any(items, keywords) ==
    SelectSeq(items, LAMBDA item :
        \E k \in 1..Len(keywords) : ~Contains(item, keywords[k]))

filter_not_include(items, keywords) ==
    SelectSeq(items, LAMBDA item :
        \A k \in 1..Len(keywords) : ~Contains(item, keywords[k]))

RECURSIVE remove_keywords_in_string(_, _)
remove_keywords_in_string(item, keywords) ==
    IF keywords = << >> THEN item
    ELSE remove_keywords_in_string(Replace(item, Head(keywords)), Tail(keywords))

remove_keywords_in_strings(items, keywords) ==
    [i \in 1..Len(items) |-> remove_keywords_in_string(items[i], keywords)]

trim_whitespaces_in_strings(items) ==
    [i \in 1..Len(items) |-> Strip(items[i])]

\* identify, lines 136 and 138
DropKeywords == << <<"om", "gim">>, <<"yeokk", "eun", "i">>, <<"yeok", "ja">> >>
StripKeywords ==
    << <<"ji", "eun", "i">>, <<":">>, <<"jeo", "ja">>, <<"jak", "ga">>,
       <<"ji", "eum">> >>
AuthorClass == {"/", ",", ";"}

\* the same pipeline with the last two stages exchanged
AuthorPipelineEmptyFirst(author) ==
    trim_whitespaces_in_strings(
        remove_empty_strings(
            remove_keywords_in_strings(
                filter_not_include(ReSplit(author, AuthorClass), DropKeywords),
                StripKeywords)))

\* identify, lines 131 to 141
AuthorPipeline(author) ==
    remove_empty_strings(
        trim_whitespaces_in_strings(
            remove_keywords_in_strings(
                filter_not_include(ReSplit(author, AuthorClass), DropKeywords),
                StripKeywords)))

\* identify, lines 130 to 143
AuthorsOf(bj) ==
    IF Truthy(bj.AUTHOR) THEN Some(AuthorPipeline(Val(bj.AUTHOR))) ELSE None

-----------------------------------------------------------------------------
(* URL builder *)

IsbnClass == {"(", " "}

get_isbn_last(ids) ==
    IF IsNone(ids) \/ IsNone(Val(ids).isbn) THEN None
    ELSE LET parts == ReSplit(Val(Val(ids).isbn), IsbnClass)
         IN  Some(parts[Len(parts)])

get_isbn(ids) ==
    IF IsNone(ids) \/ IsNone(Val(ids).isbn) THEN None
    ELSE Some(ReSplit(Val(Val(ids).isbn), IsbnClass)[1])

get_book_query(isbn) ==
    Join(S("&"), << Join(S("="), <<S("schM"), S("intgr_detail_view_isbn")>>),
                    Join(S("="), <<S("isbn"), isbn>>) >>)

\* '='.join(("cert_key", None)) raises TypeError
get_book_json_query_raises == IsNone(prefs.api_key)

get_book_json_query(isbn) ==
    Join(S("&"), << Join(S("="), <<S("cert_key"), Val(prefs.api_key)>>),
                    Join(S("="), <<S("result_style"), S("json")>>),
                    Join(S("="), <<S("page_no"), S("1")>>),
                    Join(S("="), <<S("page_size"), S("1")>>),
                    Join(S("="), <<S("isbn"), isbn>>) >>)

\* The builders return Optional[tuple[str, str, str]]; exc tells that the
\* builder raised instead of returning.
get_book_json_url(ids) ==
    IF IsNone(ids) \/ IsNone(Val(ids).isbn) THEN [exc |-> FALSE, val |-> None]
    ELSE IF get_book_json_query_raises THEN [exc |-> TRUE, val |-> None]
    ELSE LET isbn == Val(get_isbn(ids))
         IN  [exc |-> FALSE,
              val |-> Some(<< S("isbn"), isbn,
                              S("https://www.nl.go.kr/seoji/SearchApi.do?")
                                  \o get_book_json_query(isbn) >>)]

get_book_url(ids) ==
    IF IsNone(ids) \/ IsNone(Val(ids).isbn) THEN None
    ELSE LET isbn == Val(get_isbn(ids))
         IN  Some(<< S("isbn"), isbn,
                     S("https://nl.go.kr/seoji/contents/S80100000000.do?")
                         \o get_book_query(isbn) >>)

-----------------------------------------------------------------------------
(* JSON record extractor and HTML detail extractor *)

\* get_book_json, lines 314 to 316, on what the transport answered: the
\* transport raised (ok = FALSE), or returned a body that is JSON or not,
\* with or without a docs array. exc tells that get_book_json raised.
get_book_json_last(resp) ==
    IF \/ ~resp.ok
       \/ ~resp.body.json
       \/ IsNone(resp.body.docs)
       \/ Val(resp.body.docs) = << >>
    THEN [exc |-> TRUE, val |-> None]
    ELSE [exc |-> FALSE,
          val |-> Some(Val(resp.body.docs)[Len(Val(resp.body.docs))])]

get_book_json(resp) ==
    IF \/ ~resp.ok                          \* download_contents raised
       \/ ~resp.body.json                   \* json.loads raised
       \/ IsNone(resp.body.docs)            \* None[0]
       \/ Val(resp.body.docs) = << >>       \* [][0]
    THEN [exc |-> TRUE, val |-> None]
    ELSE [exc |-> FALSE, val |-> Some(Val(resp.body.docs)[1])]

\* The labels of the detail page that identify consults, one chunk each:
\* U+D0A4 U+C6CC U+B4DC, "DOI", and the two language labels
\* (U+D615 U+D0DC .. and U+C11C U+BE44 U+C2A4 U+D615 U+D0DC ..).
KeywordLabel == S("kiwodeu")
DoiLabel == S("DOI")
LangLabel == S("hyeongtae mit bonmuneoneo")
SvcLangLabel == S("seobiseuhyeongtae mit bonmuneoneo")
CommentsLabel == S("comments")

\* root.select(...): the list items under the container, none without it
SelectLis(page) == IF page.container THEN page.items ELSE << >>

\* li.select_one("strong").text raises AttributeError when select_one
\* found no element, and so does li.select_one("div").text
LiRaises(li) == IsNone(li.strong) \/ IsNone(li.div)

\* data[label] of the dict comprehension of line 265: the value of the last
\* item with that label, None when there is none
Lookup(lis, label) ==
    LET hits == {i \in 1..Len(lis) : Strip(Val(lis[i].strong)) = label}
    IN  IF hits = {} THEN None
        ELSE Some(Strip(Val(lis[CHOOSE i \in hits : \A j \in hits : j <= i].div)))

\* get_book_info, lines 259 to 269
get_book_info(resp) ==
    IF ~resp.ok THEN [exc |-> TRUE, val |-> None]
    ELSE LET lis == SelectLis(resp.body)
         IN  IF \E i \in 1..Len(lis) : LiRaises(lis[i])
             THEN [exc |-> TRUE, val |-> None]
             ELSE [exc |-> FALSE,
                   val |-> Some([keyword |-> Lookup(lis, KeywordLabel),
                                 DOI |-> Lookup(lis, DoiLabel),
                                 lang |-> Lookup(lis, LangLabel),
                                 svclang |-> Lookup(lis, SvcLangLabel),
                                 comments |->
                                     IF resp.body.intro /\ ~IsNone(resp.body.panel)
                                     THEN resp.body.panel
                                     ELSE Lookup(lis, CommentsLabel)])]

-----------------------------------------------------------------------------
(* Metadata assembler: the values identify computes *)

\* identify, lines 145 to 159. date_ok: whether the host's strptime parsed
\* the date; when it raised, pubdate stays unset.
Stage1Record(bj, date_ok) ==
    [title |-> bj.TITLE,
     authors |-> AuthorsOf(bj),
     publisher |-> bj.PUBLISHER,
     pubdate |-> IF Truthy(Or(bj.REAL_PUBLISH_DATE, bj.PUBLISH_PREDATE)) /\ date_ok
                 THEN Some([strptime |-> Val(Or(bj.REAL_PUBLISH_DATE,
                                               bj.PUBLISH_PREDATE))])
                 ELSE None,
     series |-> bj.SERIES_TITLE,
     series_index |-> bj.SERIES_NO,
     isbn |-> bj.EA_ISBN,
     isbn_add_code |-> bj.EA_ADD_CODE,
     tags |-> None,
     doi |-> None,
     languages |-> None,
     comments |-> None]

TagClass == {",", ";"}
TagKeywords == << <<"T", "A", "G">>, <<":">> >>

\* identify, lines 173 to 180
TagPipeline(keyword) ==
    remove_empty_strings(
        trim_whitespaces_in_strings(
            remove_keywords_in_strings(ReSplit(keyword, TagClass), TagKeywords)))

\* s.lstrip(chars): the leading characters that are in chars are dropped
RECURSIVE LStrip(_, _)
LStrip(s, chars) ==
    IF s # << >> /\ Head(s) \in chars THEN LStrip(Tail(s), chars) ELSE s

\* "https://doi.org/"
DoiPrefix ==
    <<"h", "t", "t", "p", "s", ":", "/", "/", "d", "o", "i", ".", "o", "r", "g", "/">>

\* identify, line 186
DoiOf(doi) == LStrip(doi, {DoiPrefix[i] : i \in 1..Len(DoiPrefix)})

\* identify, line 193
LanguageOf(lang) ==
    LET parts == ReSplit(lang, {"/"}) IN Strip(parts[Len(parts)])

-----------------------------------------------------------------------------
(* Inputs *)

ApiKeys == {None, Some(S("KEY"))}

IsbnAlphabet == {"9", "7", " ", "("}

EmptyDict == [isbn |-> None, doi |-> None]

\* identifiers: None, or a mapping with or without an "isbn" key
AllIdentifiers ==
    {None}
    \cup {Some([isbn |-> None, doi |-> d]) : d \in {None, Some(<<"1">>)}}
    \cup {Some([isbn |-> Some(s), doi |-> None]) :
              s \in Strings(IsbnAlphabet, MaxIsbnLen)}

SomeIdentifiers ==
    {None,
     Some([isbn |-> None, doi |-> Some(<<"1">>)]),
     Some([isbn |-> Some(<<"9", "7">>), doi |-> None]),
     Some([isbn |-> Some(<<"9", "7", " ", "(", "7">>), doi |-> None])}

Timeouts == {10, 30}

FullRecord ==
    [TITLE |-> Some(S("title")),
     AUTHOR |-> Some(<<"k", " ", "ji", "eun", "i", "/", "k", "k", " ", "om", "gim",
                       ";", "k">>),
     PUBLISHER |-> Some(S("publisher")),
     REAL_PUBLISH_DATE |-> Some(S("20240131")),
     PUBLISH_PREDATE |-> Some(S("20240101")),
     SERIES_TITLE |-> Some(S("series")),
     SERIES_NO |-> Some(S("1")),
     EA_ISBN |-> Some(<<"9", "7">>),
     EA_ADD_CODE |-> Some(S("03810")),
     TITLE_URL |-> Some(S("https://www.nl.go.kr/cover.jpg"))]

BareRecord ==
    [TITLE |-> None, AUTHOR |-> None, PUBLISHER |-> None,
     REAL_PUBLISH_DATE |-> None, PUBLISH_PREDATE |-> None,
     SERIES_TITLE |-> None, SERIES_NO |-> None, EA_ISBN |-> None,
     EA_ADD_CODE |-> None, TITLE_URL |-> None]

PredateRecord ==
    [FullRecord EXCEPT !.AUTHOR = Some(<< >>),
                       !.REAL_PUBLISH_DATE = Some(<< >>),
                       !.PUBLISH_PREDATE = Some(S("2024")),
                       !.TITLE_URL = Some(S("https://www.nl.go.kr/other.jpg"))]

NotJson == [json |-> FALSE, docs |-> None]
Docs(records) == [json |-> TRUE, docs |-> Some(records)]

SearchResponses ==
    {[ok |-> FALSE, body |-> NotJson]}
    \cup {[ok |-> TRUE, body |-> b] :
              b \in {NotJson,
                     [json |-> TRUE, docs |-> None],
                     Docs(<< >>),
                     Docs(<<FullRecord>>),
                     Docs(<<BareRecord>>),
                     Docs(<<PredateRecord, FullRecord>>)}}

AuthorAlphabet == {"/", ",", ":", " ", "jeo", "ja", "yeok", "k"}

\* every AUTHOR of at most MaxAuthorLen characters, and none
AuthorResponses ==
    {[ok |-> TRUE, body |-> Docs(<<[FullRecord EXCEPT !.AUTHOR = a]>>)] :
        a \in {None} \cup {Some(s) : s \in Strings(AuthorAlphabet, MaxAuthorLen)}}

Li(strong, div) == [strong |-> strong, div |-> div]

Page(items, intro, panel) ==
    [container |-> TRUE, items |-> items, intro |-> intro, panel |-> panel]

NoContainerPage ==
    [container |-> FALSE, items |-> <<Li(Some(DoiLabel), Some(<<"1">>))>>,
     intro |-> FALSE, panel |-> None]

FullPage ==
    Page(<< Li(Some(S("balhaengcheo")), Some(S("publisher"))),
            Li(Some(KeywordLabel), Some(<<"T", "A", "G", ":", "a", ";", " ", "b", ",">>)),
            Li(Some(DoiLabel), Some(DoiPrefix \o <<"1", "0", ".", "1", "/", "a">>)),
            Li(Some(LangLabel), Some(<<"p", " ", "/", " ", "k", "o">>)) >>,
         TRUE, Some(S("<div class=searchViewInfo>")))

\* a service-form language label only, a label with blanks around it, the
\* DOI label twice, and a DOI whose suffix begins with a letter of the prefix
DriftedPage ==
    Page(<< Li(Some(DoiLabel), Some(DoiPrefix \o <<"1", "0">>)),
            Li(Some(<<" ">> \o DoiLabel \o <<" ">>),
               Some(DoiPrefix \o <<"d", "1", "0">>)),
            Li(Some(SvcLangLabel), Some(<<"k", "o">>)),
            Li(Some(CommentsLabel), Some(S("text"))) >>,
         TRUE, None)

NoLabelPage ==
    Page(<< Li(Some(DoiLabel), Some(DoiPrefix \o <<"1", "0">>)),
            Li(None, Some(<<"k", "o">>)) >>,
         FALSE, None)

NoValuePage ==
    Page(<< Li(Some(KeywordLabel), None),
            Li(Some(LangLabel), Some(<<"k", "o">>)) >>,
         FALSE, Some(S("<div class=searchViewInfo>")))

DetailPages == {NoContainerPage, FullPage, DriftedPage, NoLabelPage, NoValuePage}

DetailResponses ==
    {[ok |-> FALSE, body |-> NoContainerPage]}
    \cup {[ok |-> TRUE, body |-> p] : p \in DetailPages}

-----------------------------------------------------------------------------
(* The state after construction, and a call's fresh locals *)

Idle == pc \in {"idle", "done"}

Init ==
    /\ prefs \in {[api_key |-> k] : k \in ApiKeys}
    /\ pc = "idle"
    /\ op = "none"
    /\ identifiers = None
    /\ timeout = 0
    /\ url = None
    /\ book_json = None
    /\ book_info = None
    /\ mi = None
    /\ result_queue = << >>
    /\ log = << >>
    /\ events = << >>
    /\ attempted = << >>
    /\ ret = None
    /\ escaped = FALSE

FreshLocals ==
    /\ url' = None
    /\ book_json' = None
    /\ book_info' = None
    /\ mi' = None
    /\ result_queue' = << >>
    /\ events' = << >>
    /\ attempted' = << >>

-----------------------------------------------------------------------------
(* The helpers as entry points: the host calls get_book_url itself, and    *)
(* get_isbn and get_book_json_url are called the same way.                 *)

CallGetIsbn(ids) ==
    /\ Idle
    /\ op' = "get_isbn"
    /\ identifiers' = ids
    /\ ret' = get_isbn(ids)
    /\ escaped' = FALSE
    /\ pc' = "done"
    /\ timeout' = 0
    /\ FreshLocals
    /\ log' = << >>
    /\ UNCHANGED prefs

CallGetBookJsonUrl(ids) ==
    /\ Idle
    /\ op' = "get_book_json_url"
    /\ identifiers' = ids
    /\ ret' = get_book_json_url(ids).val
    /\ escaped' = get_book_json_url(ids).exc
    /\ pc' = "done"
    /\ timeout' = 0
    /\ FreshLocals
    /\ log' = << >>
    /\ UNCHANGED prefs

CallGetBookUrl(ids) ==
    /\ Idle
    /\ op' = "get_book_url"
    /\ identifiers' = ids
    /\ ret' = get_book_url(ids)
    /\ escaped' = FALSE
    /\ pc' = "done"
    /\ timeout' = 0
    /\ FreshLocals
    /\ log' = << >>
    /\ UNCHANGED prefs

-----------------------------------------------------------------------------
(* identify *)

\* A call to a host collaborator: the URL and the timeout it was given, and,
\* for the transport, what it answered.
Event(call, u, t, answer) ==
    [call |-> call, url |-> u, timeout |-> t, answer |-> answer]

\* a fetch that passes the default of line 108 instead of the caller's value
FetchTimeoutDefault == 30

\* lines 126, 168 and 240: timeout=timeout
FetchTimeout == timeout

\* lines 118 to 120
IdentifyStart(ids, t) ==
    /\ Idle
    /\ op' = "identify"
    /\ identifiers' = IF IsNone(ids) THEN Some(EmptyDict) ELSE ids
    /\ timeout' = t
    /\ FreshLocals
    /\ log' = <<"info">>
    /\ ret' = None
    /\ escaped' = FALSE
    /\ pc' = "json_url"
    /\ UNCHANGED prefs

\* lines 211 and 212, with the exception re-raised to the host
OuterExceptReraise ==
    /\ log' = Append(log, "exception")
    /\ pc' = "done"
    /\ ret' = None
    /\ escaped' = TRUE

\* lines 211 and 212: the handler of the try that spans identify
OuterExcept ==
    /\ log' = Append(log, "exception")
    /\ pc' = "done"
    /\ ret' = None
    /\ escaped' = FALSE

\* lines 203 and 204, with the exception passed on to the outer handler
InnerExceptPropagates ==
    /\ OuterExcept
    /\ UNCHANGED <<mi, attempted>>

\* lines 203 and 204: the handler of the try that spans Stage 2
InnerExcept ==
    /\ log' = Append(log, "exception")
    /\ pc' = "cleanup"
    /\ UNCHANGED <<mi, attempted, ret, escaped>>

\* a sub-step's handler that passes the exception on to lines 203 and 204
SubStepExceptPropagates(next) ==
    /\ log' = Append(log, "exception")
    /\ pc' = "cleanup"
    /\ UNCHANGED mi

\* lines 181-182, 187-188, 195-196, 201-202: the handler of one sub-step
SubStepExcept(next) ==
    /\ log' = Append(log, "exception")
    /\ pc' = next
    /\ UNCHANGED mi

\* lines 123 and 124: None[2] raises, and so does a missing api_key
IdentifyJsonUrl ==
    /\ op = "identify" /\ pc = "json_url"
    /\ LET r == get_book_json_url(identifiers)
       IN  IF r.exc \/ IsNone(r.val)
           THEN OuterExcept /\ UNCHANGED url
           ELSE /\ url' = Some(Val(r.val)[3])
                /\ log' = Append(log, "debug")
                /\ pc' = "fetch_json"
                /\ UNCHANGED <<ret, escaped>>
    /\ UNCHANGED <<prefs, op, identifiers, timeout, book_json,
                   book_info, mi, result_queue, events, attempted>>

\* lines 126 and 127
IdentifyFetchJson(resp) ==
    /\ op = "identify" /\ pc = "fetch_json"
    /\ events' = Append(events, Event("fetch", url, FetchTimeout, Some(resp)))
    /\ LET r == get_book_json(resp)
       IN  IF r.exc
           THEN OuterExcept /\ UNCHANGED book_json
           ELSE /\ book_json' = r.val
                /\ log' = Append(log, "debug")
                /\ pc' = "build"
                /\ UNCHANGED <<ret, escaped>>
    /\ UNCHANGED <<prefs, op, identifiers, timeout, url, book_info,
                   mi, result_queue, attempted>>

\* lines 129 to 159. fault: an operation of the host's Metadata record
\* raised; date_ok: the host's strptime parsed the date (lines 148 to 153
\* contain its exception).
IdentifyBuildRecord(fault, date_ok) ==
    /\ op = "identify" /\ pc = "build"
    /\ IF fault
       THEN OuterExcept /\ UNCHANGED mi
       ELSE /\ mi' = Some(Stage1Record(Val(book_json), date_ok))
            /\ log' = IF /\ Truthy(Or(Val(book_json).REAL_PUBLISH_DATE,
                                      Val(book_json).PUBLISH_PREDATE))
                         /\ ~date_ok
                      THEN Append(log, "exception")
                      ELSE log
            /\ pc' = "book_url"
            /\ UNCHANGED <<ret, escaped>>
    /\ UNCHANGED <<prefs, op, identifiers, timeout, url, book_json,
                   book_info, result_queue, events, attempted>>

\* lines 162 to 166
IdentifyBookUrl ==
    /\ op = "identify" /\ pc = "book_url"
    /\ IF IsNone(get_book_url(identifiers))
       THEN InnerExcept /\ UNCHANGED url
       ELSE /\ url' = Some(Val(get_book_url(identifiers))[3])
            /\ log' = Append(log, "debug")
            /\ pc' = "fetch_detail"
            /\ UNCHANGED <<mi, attempted, ret, escaped>>
    /\ UNCHANGED <<prefs, op, identifiers, timeout, book_json,
                   book_info, result_queue, events>>

\* lines 168 and 169
IdentifyFetchDetail(resp) ==
    /\ op = "identify" /\ pc = "fetch_detail"
    /\ events' = Append(events, Event("fetch", url, FetchTimeout, Some(resp)))
    /\ LET r == get_book_info(resp)
       IN  IF r.exc
           THEN InnerExcept /\ UNCHANGED book_info
           ELSE /\ book_info' = r.val
                /\ log' = Append(log, "debug")
                /\ pc' = "tags"
                /\ UNCHANGED <<mi, attempted, ret, escaped>>
    /\ UNCHANGED <<prefs, op, identifiers, timeout, url, book_json,
                   result_queue>>

SubStepFrame ==
    UNCHANGED <<prefs, op, identifiers, timeout, url, book_json,
                book_info, result_queue, events, ret, escaped>>

\* lines 171 to 182. fault: the record's setter raised.
EnrichTags(fault) ==
    /\ op = "identify" /\ pc = "tags"
    /\ attempted' = Append(attempted, "tags")
    /\ IF ~Truthy(Val(book_info).keyword)
       THEN pc' = "doi" /\ UNCHANGED <<mi, log>>
       ELSE IF fault
            THEN SubStepExcept("doi")
            ELSE /\ mi' = Some([Val(mi) EXCEPT
                               !.tags = Some(TagPipeline(Val(Val(book_info).keyword)))])
                 /\ pc' = "doi"
                 /\ UNCHANGED log
    /\ SubStepFrame

\* lines 184 to 188
EnrichDoi(fault) ==
    /\ op = "identify" /\ pc = "doi"
    /\ attempted' = Append(attempted, "doi")
    /\ IF ~Truthy(Val(book_info).DOI)
       THEN pc' = "languages" /\ UNCHANGED <<mi, log>>
       ELSE IF fault
            THEN SubStepExcept("languages")
            ELSE /\ mi' = Some([Val(mi) EXCEPT
                               !.doi = Some(DoiOf(Val(Val(book_info).DOI)))])
                 /\ pc' = "languages"
                 /\ UNCHANGED log
    /\ SubStepFrame

\* lines 190 to 196
EnrichLanguages(fault) ==
    /\ op = "identify" /\ pc = "languages"
    /\ attempted' = Append(attempted, "languages")
    /\ IF ~Truthy(Or(Val(book_info).lang, Val(book_info).svclang))
       THEN pc' = "comments" /\ UNCHANGED <<mi, log>>
       ELSE IF fault
            THEN SubStepExcept("comments")
            ELSE /\ mi' = Some([Val(mi) EXCEPT
                               !.languages =
                                   Some(<<LanguageOf(Val(Or(Val(book_info).lang,
                                                            Val(book_info).svclang)))>>)])
                 /\ pc' = "comments"
                 /\ UNCHANGED log
    /\ SubStepFrame

\* lines 198 to 202
EnrichComments(fault) ==
    /\ op = "identify" /\ pc = "comments"
    /\ attempted' = Append(attempted, "comments")
    /\ IF ~Truthy(Val(book_info).comments)
       THEN pc' = "cleanup" /\ UNCHANGED <<mi, log>>
       ELSE IF fault
            THEN SubStepExcept("cleanup")
            ELSE /\ mi' = Some([Val(mi) EXCEPT !.comments = Val(book_info).comments])
                 /\ pc' = "cleanup"
                 /\ UNCHANGED log
    /\ SubStepFrame

\* line 206: the host's cleanup pass over the record; the model keeps the
\* record's fields as the plugin set them.
IdentifyCleanup ==
    /\ op = "identify" /\ pc = "cleanup"
    /\ events' = Append(events, Event("clean_downloaded_metadata", None, 0, None))
    /\ pc' = "put"
    /\ UNCHANGED <<prefs, op, identifiers, timeout, url, book_json,
                   book_info, mi, result_queue, log, attempted, ret, escaped>>

\* lines 208 to 210, and the return
IdentifyPut ==
    /\ op = "identify" /\ pc = "put"
    /\ log' = Append(log, "debug")
    /\ result_queue' = Append(result_queue, Val(mi))
    /\ events' = Append(events, Event("put", None, 0, None))
    /\ pc' = "done"
    /\ UNCHANGED <<prefs, op, identifiers, timeout, url, book_json,
                   book_info, mi, attempted, ret, escaped>>

-----------------------------------------------------------------------------
(* download_cover *)

\* download_cover has no handler: the exception leaves the call
Escape ==
    /\ pc' = "done"
    /\ ret' = None
    /\ escaped' = TRUE

\* lines 235 and 236
CoverStart(ids, t) ==
    /\ Idle
    /\ op' = "download_cover"
    /\ identifiers' = IF IsNone(ids) THEN Some(EmptyDict) ELSE ids
    /\ timeout' = t
    /\ FreshLocals
    /\ log' = << >>
    /\ ret' = None
    /\ escaped' = FALSE
    /\ pc' = "json_url"
    /\ UNCHANGED prefs

\* lines 237 and 238
CoverJsonUrl ==
    /\ op = "download_cover" /\ pc = "json_url"
    /\ LET r == get_book_json_url(identifiers)
       IN  IF r.exc \/ IsNone(r.val)
           THEN Escape /\ UNCHANGED <<url, log>>
           ELSE /\ url' = Some(Val(r.val)[3])
                /\ log' = Append(log, "debug")
                /\ pc' = "fetch_json"
                /\ UNCHANGED <<ret, escaped>>
    /\ UNCHANGED <<prefs, op, identifiers, timeout, book_json,
                   book_info, mi, result_queue, events, attempted>>

\* lines 240 and 241
CoverFetchJson(resp) ==
    /\ op = "download_cover" /\ pc = "fetch_json"
    /\ events' = Append(events, Event("fetch", url, FetchTimeout, Some(resp)))
    /\ LET r == get_book_json(resp)
       IN  IF r.exc
           THEN Escape /\ UNCHANGED <<book_json, log>>
           ELSE /\ book_json' = r.val
                /\ log' = Append(log, "debug")
                /\ pc' = "download_image"
                /\ UNCHANGED <<ret, escaped>>
    /\ UNCHANGED <<prefs, op, identifiers, timeout, url, book_info,
                   mi, result_queue, attempted>>

\* line 243. delivered: the host's download_image got the image and put it
\* on the result sink; it logs and puts nothing when it did not.
CoverDownloadImage(delivered) ==
    /\ op = "download_cover" /\ pc = "download_image"
    /\ events' = Append(events,
                        Event("download_image", Val(book_json).TITLE_URL, timeout, None))
    /\ result_queue' = IF delivered
                       THEN Append(result_queue, [cover |-> Val(book_json).TITLE_URL])
                       ELSE result_queue
    /\ pc' = "done"
    /\ UNCHANGED <<prefs, op, identifiers, timeout, url, book_json,
                   book_info, mi, log, attempted, ret, escaped>>

-----------------------------------------------------------------------------
(* Specifications *)

\* identify and download_cover, on a few inputs of every kind
Next ==
    \/ \E ids \in SomeIdentifiers, t \in Timeouts : IdentifyStart(ids, t)
    \/ IdentifyJsonUrl
    \/ \E resp \in SearchResponses : IdentifyFetchJson(resp)
    \/ \E fault, date_ok \in BOOLEAN : IdentifyBuildRecord(fault, date_ok)
    \/ IdentifyBookUrl
    \/ \E resp \in DetailResponses : IdentifyFetchDetail(resp)
    \/ \E fault \in BOOLEAN : EnrichTags(fault)
    \/ \E fault \in BOOLEAN : EnrichDoi(fault)
    \/ \E fault \in BOOLEAN : EnrichLanguages(fault)
    \/ \E fault \in BOOLEAN : EnrichComments(fault)
    \/ IdentifyCleanup
    \/ IdentifyPut
    \/ \E ids \in SomeIdentifiers, t \in Timeouts : CoverStart(ids, t)
    \/ CoverJsonUrl
    \/ \E resp \in SearchResponses : CoverFetchJson(resp)
    \/ \E delivered \in BOOLEAN : CoverDownloadImage(delivered)

Spec == Init /\ [][Next]_vars

\* Stage 1 of identify, on every AUTHOR string within the bound
NextAuthors ==
    \/ IdentifyStart(Some([isbn |-> Some(<<"9", "7">>), doi |-> None]), 30)
    \/ IdentifyJsonUrl
    \/ pc = "fetch_json" /\ \E resp \in AuthorResponses : IdentifyFetchJson(resp)
    \/ IdentifyBuildRecord(FALSE, TRUE)

SpecAuthors == Init /\ [][NextAuthors]_vars

\* the URL builders, on every identifiers value within the bound
NextIsbn ==
    \E ids \in AllIdentifiers :
        \/ CallGetIsbn(ids)
        \/ CallGetBookJsonUrl(ids)
        \/ CallGetBookUrl(ids)

SpecIsbn == Init /\ [][NextIsbn]_vars

-----------------------------------------------------------------------------
(* C6: for identifiers that are None or have no "isbn" key, get_isbn and   *)
(* both URL builders return None; for a mapping with an "isbn" value v,    *)
(* get_isbn returns v cut at its first space or '(': the longest prefix of *)
(* v that holds neither character.                                         *)

NoIsbn(ids) == IsNone(ids) \/ IsNone(Val(ids).isbn)

IsTruncation(r, v) ==
    /\ Len(r) <= Len(v)
    /\ r = SubSeq(v, 1, Len(r))
    /\ \A i \in 1..Len(r) : r[i] \notin {" ", "("}
    /\ Len(r) < Len(v) => v[Len(r) + 1] \in {" ", "("}

C6_IsbnOf ==
    /\ (pc = "done" /\ op \in {"get_isbn", "get_book_json_url", "get_book_url"}
            /\ NoIsbn(identifiers))
           => (ret = None /\ ~escaped)
    /\ (pc = "done" /\ op = "get_isbn" /\ ~NoIsbn(identifiers))
           => (~IsNone(ret) /\ IsTruncation(Val(ret), Val(Val(identifiers).isbn)))

\* "9 (7" style input: something follows the first space or '(' and is cut
C6_Witness ==
    /\ pc = "done" /\ op = "get_isbn"
    /\ identifiers = Some([isbn |-> Some(<<"9", " ", "(">>), doi |-> None])
    /\ ret = Some(<<"9">>)

-----------------------------------------------------------------------------
(* What the claims read off the calls made to the host *)

SearchBase == "https://www.nl.go.kr/seoji/SearchApi.do?"

IsSearchFetch(e) == e.call = "fetch" /\ Val(e.url)[1] = SearchBase
IsDetailFetch(e) == e.call = "fetch" /\ Val(e.url)[1] # SearchBase

EventsWhere(Test(_)) == {i \in 1..Len(events) : Test(events[i])}

\* the transport raised, the body is not JSON, or docs is absent or empty
BadSearchAnswer(a) ==
    \/ ~a.ok
    \/ ~a.body.json
    \/ IsNone(a.body.docs)
    \/ Val(a.body.docs) = << >>

SearchFailed ==
    \E i \in EventsWhere(IsSearchFetch) : BadSearchAnswer(Val(events[i].answer))

Exceptions == Len(SelectSeq(log, LAMBDA level : level = "exception"))

-----------------------------------------------------------------------------
(* C1: when Stage 1 of identify fails (no "isbn" among the identifiers,    *)
(* the search fetch raises, its body is not JSON, docs is absent or        *)
(* empty), nothing is put on the result sink, the failure is logged and    *)
(* no exception leaves identify.                                           *)

C1_Stage1Failure ==
    (op = "identify" /\ (NoIsbn(identifiers) \/ SearchFailed)) =>
        /\ result_queue = << >>
        /\ IsNone(mi)
        /\ EventsWhere(LAMBDA e : e.call = "put") = {}
        /\ pc \in {"json_url", "done"}
        /\ pc = "done" => (log[Len(log)] = "exception" /\ ~escaped)

\* the search answered {"docs": []}
C1_Witness ==
    /\ op = "identify" /\ pc = "done"
    /\ \E i \in EventsWhere(IsSearchFetch) :
           /\ Val(events[i].answer).ok
           /\ Val(events[i].answer).body = Docs(<< >>)
    /\ result_queue = << >>
    /\ log[Len(log)] = "exception"
    /\ ~escaped

-----------------------------------------------------------------------------
(* C2: when Stage 1 succeeded and the detail fetch or the detail parse     *)
(* raises, identify still puts exactly one record, which has the Stage-1   *)
(* fields as Stage 1 set them and tags, doi, languages and comments unset. *)

DetailFailed ==
    \E i \in EventsWhere(IsDetailFetch) : get_book_info(Val(events[i].answer)).exc

C2_DetailFailure ==
    (op = "identify" /\ DetailFailed) =>
        /\ pc \in {"cleanup", "put", "done"}
        /\ ~IsNone(mi)
        /\ Val(mi).title = Val(book_json).TITLE
        /\ Val(mi).authors = AuthorsOf(Val(book_json))
        /\ Val(mi).publisher = Val(book_json).PUBLISHER
        /\ Val(mi).isbn = Val(book_json).EA_ISBN
        /\ Val(mi).tags = None
        /\ Val(mi).doi = None
        /\ Val(mi).languages = None
        /\ Val(mi).comments = None
        /\ pc # "done" => result_queue = << >>
        /\ pc = "done" => (result_queue = <<Val(mi)>> /\ ~escaped)

C2_Witness ==
    /\ op = "identify" /\ pc = "done"
    /\ \E i \in EventsWhere(IsDetailFetch) : ~Val(events[i].answer).ok
    /\ book_json = Some(FullRecord)
    /\ Len(result_queue) = 1
    /\ result_queue[1].title = Some(S("title"))
    /\ result_queue[1].tags = None

-----------------------------------------------------------------------------
(* C3: once the detail mapping is there, the four sub-steps are            *)
(* independent: each is entered whatever the earlier ones did, a sub-step  *)
(* that raises is logged and costs its own field only, and the record is   *)
(* delivered.                                                              *)

SubSteps == <<"tags", "doi", "languages", "comments">>

\* the sub-steps entered when the call is at position p
EnteredAt(p) ==
    CASE p = "tags" -> 0
      [] p = "doi" -> 1
      [] p = "languages" -> 2
      [] p = "comments" -> 3
      [] OTHER -> 4

\* the fields whose input is there and that are unset nevertheless
LostFields ==
    LET info == Val(book_info)
        m == Val(mi)
        date == Or(Val(book_json).REAL_PUBLISH_DATE, Val(book_json).PUBLISH_PREDATE)
    IN  {f \in {"pubdate", "tags", "doi", "languages", "comments"} :
            \/ f = "pubdate" /\ Truthy(date) /\ IsNone(m.pubdate)
            \/ f = "tags" /\ Truthy(info.keyword) /\ IsNone(m.tags)
            \/ f = "doi" /\ Truthy(info.DOI) /\ IsNone(m.doi)
            \/ f = "languages" /\ Truthy(Or(info.lang, info.svclang))
                   /\ IsNone(m.languages)
            \/ f = "comments" /\ Truthy(info.comments) /\ IsNone(m.comments)}

C3_SubStepsIndependent ==
    (op = "identify" /\ ~IsNone(book_info)) =>
        /\ attempted = SubSeq(SubSteps, 1, EnteredAt(pc))
        /\ pc \in {"cleanup", "put", "done"} =>
               /\ Cardinality(LostFields) = Exceptions
               /\ IsNone(Val(mi).tags) \/
                      Val(mi).tags = Some(TagPipeline(Val(Val(book_info).keyword)))
               /\ IsNone(Val(mi).doi) \/
                      Val(mi).doi = Some(DoiOf(Val(Val(book_info).DOI)))
               /\ IsNone(Val(mi).languages) \/
                      Val(mi).languages =
                          Some(<<LanguageOf(Val(Or(Val(book_info).lang,
                                                   Val(book_info).svclang)))>>)
               /\ IsNone(Val(mi).comments) \/
                      Val(mi).comments = Val(book_info).comments
        /\ pc = "done" => (result_queue = <<Val(mi)>> /\ ~escaped)

\* the tags sub-step raised; doi, languages and comments are set all the same
C3_Witness ==
    /\ op = "identify" /\ pc = "done" /\ ~IsNone(book_info)
    /\ attempted = SubSteps
    /\ Truthy(Val(book_info).keyword) /\ IsNone(Val(mi).tags)
    /\ ~IsNone(Val(mi).doi) /\ ~IsNone(Val(mi).languages) /\ ~IsNone(Val(mi).comments)
    /\ Exceptions = 1
    /\ result_queue = <<Val(mi)>>

-----------------------------------------------------------------------------
(* C4 as claimed: get_book_info never fails on a parse problem: for a page *)
(* without the container, or with a list item that lacks its label or its  *)
(* value element, it returns the mapping of the well-formed items.         *)

WellFormed(page) ==
    [page EXCEPT !.items = SelectSeq(SelectLis(page), LAMBDA li : ~LiRaises(li)),
                 !.container = TRUE]

C4_PartialMapping ==
    op = "identify" =>
        \A i \in EventsWhere(IsDetailFetch) :
            Val(events[i].answer).ok =>
                /\ ~IsNone(book_info)
                /\ book_info =
                       get_book_info([ok |-> TRUE,
                                      body |-> WellFormed(Val(events[i].answer).body)]).val

-----------------------------------------------------------------------------
(* C5: download_cover calls the host's image download at most once, and    *)
(* only after the ISBN was resolved, the search fetch succeeded and the    *)
(* first docs record was read; when one of these fails, the image download *)
(* is not called and nothing reaches the result sink.                      *)

ImageCalls == EventsWhere(LAMBDA e : e.call = "download_image")

C5_CoverDownload ==
    op = "download_cover" =>
        /\ Cardinality(ImageCalls) <= 1
        /\ Len(result_queue) <= Cardinality(ImageCalls)
        /\ (NoIsbn(identifiers) \/ SearchFailed) =>
               (ImageCalls = {} /\ result_queue = << >>)
        /\ ImageCalls # {} =>
               /\ ~NoIsbn(identifiers)
               /\ Len(events) = 2
               /\ IsSearchFetch(events[1])
               /\ ~BadSearchAnswer(Val(events[1].answer))
               /\ events[2].call = "download_image"
               /\ events[2].url = Val(Val(events[1].answer).body.docs)[1].TITLE_URL

C5_Witness ==
    /\ op = "download_cover" /\ pc = "done"
    /\ Cardinality(ImageCalls) = 1
    /\ Len(Val(Val(events[1].answer).body.docs)) = 2
    /\ result_queue = <<[cover |-> Some(S("https://www.nl.go.kr/other.jpg"))]>>

-----------------------------------------------------------------------------
(* C7 as claimed: when the DOI field is "https://doi.org/" followed by X,  *)
(* the doi identifier is set to exactly X, for every X.                    *)

C7_DoiSuffix ==
    (op = "identify" /\ ~IsNone(book_info) /\ pc \in {"languages", "comments",
                                                       "cleanup", "put", "done"}
         /\ ~IsNone(Val(mi).doi)) =>
        LET doi == Val(Val(book_info).DOI)
        IN  (Len(doi) >= Len(DoiPrefix) /\ SubSeq(doi, 1, Len(DoiPrefix)) = DoiPrefix)
                => Val(Val(mi).doi) = SubSeq(doi, Len(DoiPrefix) + 1, Len(doi))

-----------------------------------------------------------------------------
(* C9: in an identify call the calls to the host happen at most once each  *)
(* and in this order: the search fetch, the detail fetch (only after the   *)
(* search fetch and the JSON extraction succeeded), the cleanup pass, the  *)
(* put. Both fetches get the caller's timeout, and the record on the sink  *)
(* is the record as identify left it.                                      *)

Rank(e) ==
    CASE IsSearchFetch(e) -> 1
      [] IsDetailFetch(e) -> 2
      [] e.call = "clean_downloaded_metadata" -> 3
      [] e.call = "put" -> 4
      [] OTHER -> 5

C9_EventOrder ==
    op = "identify" =>
        /\ \A i \in 1..Len(events) : Rank(events[i]) <= 4
        /\ \A i, j \in 1..Len(events) :
               i < j => Rank(events[i]) < Rank(events[j])
        /\ \A i \in EventsWhere(LAMBDA e : e.call = "fetch") :
               events[i].timeout = timeout
        /\ EventsWhere(IsDetailFetch) # {} =>
               /\ EventsWhere(IsSearchFetch) # {}
               /\ ~SearchFailed
               /\ ~IsNone(book_json)
        /\ EventsWhere(LAMBDA e : e.call = "put") # {} =>
               /\ EventsWhere(LAMBDA e : e.call = "clean_downloaded_metadata") # {}
               /\ pc = "done"
               /\ result_queue = <<Val(mi)>>
        /\ Len(result_queue) = Cardinality(EventsWhere(LAMBDA e : e.call = "put"))

\* a call with a timeout of 10 that made all four calls
C9_Witness ==
    /\ op = "identify" /\ pc = "done" /\ timeout = 10
    /\ Len(events) = 4
    /\ Rank(events[1]) = 1 /\ Rank(events[2]) = 2
    /\ Rank(events[3]) = 3 /\ Rank(events[4]) = 4
    /\ Len(result_queue) = 1

-----------------------------------------------------------------------------
(* C8: for a non-empty AUTHOR the authors of the record are: AUTHOR cut at *)
(* every '/', ',' and ';'; without the pieces that hold a dropped-role     *)
(* keyword; each remaining piece with the stripped keywords deleted, one   *)
(* keyword after the other, then trimmed; without the pieces that are then *)
(* empty; in their order of appearance, duplicates kept. For an absent or  *)
(* empty AUTHOR the authors are unset.                                     *)
(* The expected value is computed piece by piece, from the positions of    *)
(* the separators, and not by the stages of the code.                      *)

C8_Cuts(s) == {0, Len(s) + 1} \cup {i \in 1..Len(s) : s[i] \in {"/", ",", ";"}}

\* the k-th smallest cut
C8_Cut(s, k) ==
    CHOOSE c \in C8_Cuts(s) : Cardinality({d \in C8_Cuts(s) : d < c}) = k - 1

C8_Piece(s, k) == SubSeq(s, C8_Cut(s, k) + 1, C8_Cut(s, k + 1) - 1)

C8_Occurs(piece, kw) ==
    {i \in 1..Len(piece) : i + Len(kw) - 1 <= Len(piece)
                           /\ \A j \in 1..Len(kw) : piece[i + j - 1] = kw[j]}

\* delete the occurrences of kw, leftmost first
RECURSIVE C8_Delete(_, _)
C8_Delete(piece, kw) ==
    IF C8_Occurs(piece, kw) = {} THEN piece
    ELSE LET i == CHOOSE a \in C8_Occurs(piece, kw) :
                      \A b \in C8_Occurs(piece, kw) : a <= b
         IN  SubSeq(piece, 1, i - 1)
                 \o C8_Delete(SubSeq(piece, i + Len(kw), Len(piece)), kw)

RECURSIVE C8_Trim(_)
C8_Trim(piece) ==
    IF piece = << >> THEN piece
    ELSE IF Head(piece) = " " THEN C8_Trim(Tail(piece))
    ELSE IF piece[Len(piece)] = " " THEN C8_Trim(SubSeq(piece, 1, Len(piece) - 1))
    ELSE piece

C8_Entry(piece) ==
    C8_Trim(
        C8_Delete(
            C8_Delete(
                C8_Delete(
                    C8_Delete(
                        C8_Delete(piece, <<"ji", "eun", "i">>),
                        <<":">>),
                    <<"jeo", "ja">>),
                <<"jak", "ga">>),
            <<"ji", "eum">>))

C8_Dropped(piece) ==
    \/ C8_Occurs(piece, <<"om", "gim">>) # {}
    \/ C8_Occurs(piece, <<"yeokk", "eun", "i">>) # {}
    \/ C8_Occurs(piece, <<"yeok", "ja">>) # {}

RECURSIVE C8_Collect(_, _)
C8_Collect(s, k) ==
    IF k >= Cardinality(C8_Cuts(s)) THEN << >>
    ELSE (IF C8_Dropped(C8_Piece(s, k)) \/ C8_Entry(C8_Piece(s, k)) = << >>
          THEN << >>
          ELSE <<C8_Entry(C8_Piece(s, k))>>)
         \o C8_Collect(s, k + 1)

C8_AuthorPipeline ==
    (op = "identify" /\ ~IsNone(mi)) =>
        LET author == Val(book_json).AUTHOR
        IN  IF ~IsNone(author) /\ Val(author) # << >>
            THEN Val(mi).authors = Some(C8_Collect(Val(author), 1))
            ELSE Val(mi).authors = None

\* "k:/k": the ':' is deleted, and both entries "k" are kept, in order
C8_Witness ==
    /\ op = "identify" /\ ~IsNone(mi)
    /\ Val(book_json).AUTHOR = Some(<<"k", ":", "/", "k">>)
    /\ Val(mi).authors = Some(<< <<"k">>, <<"k">> >>)

-----------------------------------------------------------------------------
(* C10 as claimed: no author entry holds, as a substring, a dropped-role   *)
(* keyword or a stripped keyword.                                          *)

AllKeywords ==
    {DropKeywords[i] : i \in 1..Len(DropKeywords)}
        \cup {StripKeywords[i] : i \in 1..Len(StripKeywords)}

AuthorEntries ==
    IF op = "identify" /\ ~IsNone(mi) /\ ~IsNone(Val(mi).authors)
    THEN {Val(Val(mi).authors)[i] : i \in 1..Len(Val(Val(mi).authors))}
    ELSE {}

C10_NoKeywordLeft ==
    \A entry \in AuthorEntries : \A kw \in AllKeywords : ~Contains(entry, kw)

(* C10 as amended: no author entry holds a ':'; an entry holds one of the  *)
(* keywords of several characters only when a deletion has joined its      *)
(* characters, so only when AUTHOR held an occurrence of a stripped        *)
(* keyword.                                                                *)
C10_NoKeywordUnlessJoined ==
    \A entry \in AuthorEntries :
        /\ ~Contains(entry, <<":">>)
        /\ (\E kw \in AllKeywords : Contains(entry, kw))
               => \E i \in 1..Len(StripKeywords) :
                      Contains(Val(Val(book_json).AUTHOR), StripKeywords[i])

\* "jeo ja k :" becomes the one entry "k"
C10_Witness ==
    /\ op = "identify" /\ ~IsNone(mi)
    /\ Val(book_json).AUTHOR = Some(<<"jeo", "ja", "k", ":">>)
    /\ Val(mi).authors = Some(<< <<"k">> >>)

====
